---- MODULE Spec2Model ----
(***************************************************************************)
(* FinSight AI: the client-side pipeline  file -> FileUpload ->            *)
(* handleFileProcess -> extractFinancialData -> initializeChat ->          *)
(* ChatInterface (sendMessageToAssistant, speakText, audio playback).      *)
(*                                                                         *)
(* The browser runs one event at a time: every action below is one event   *)
(* handler, or the continuation of an async function after an await, run   *)
(* to completion.  Requests in flight are kept in sets; their completion   *)
(* is a separate action whose outcome is chosen by the environment.        *)
(***************************************************************************)
EXTENDS Integers, Sequences, FiniteSets, TLC

(***************************************************************************)
(* Bounds of the model.                                                    *)
(***************************************************************************)
\* number of files the user selects in one run
MaxFiles == 2
\* number of handleSend calls accepted in one run
MaxSends == 2
\* number of times Date.now() advances in one run
MaxClock == 1
\* number of speech requests issued in one run
MaxSpeaks == 2

(***************************************************************************)
(* Strings are sequences of one-character strings, so that                 *)
(* String.prototype.includes is computed and not assumed.                  *)
(***************************************************************************)
MimePdf == <<"a","p","p","l","i","c","a","t","i","o","n","/","p","d","f">>
MimePng == <<"i","m","a","g","e","/","p","n","g">>
MimeJpeg == <<"i","m","a","g","e","/","j","p","e","g">>
MimeWebp == <<"i","m","a","g","e","/","w","e","b","p">>
MimeGif == <<"i","m","a","g","e","/","g","i","f">>
MimeText == <<"t","e","x","t","/","p","l","a","i","n">>
MimeNone == <<>>

\* the types named by the accept attribute of the file input
AcceptedTypes == {MimePdf, MimePng, MimeJpeg, MimeWebp}

\* the types a user can hand to the input (the accept attribute is a hint
\* of the file picker, it does not filter what onChange receives)
FileTypes == AcceptedTypes \cup {MimeGif, MimeText, MimeNone}

\* s.includes(t)
Includes(s, t) ==
  \E i \in 0..(Len(s) - Len(t)) : SubSeq(s, i + 1, i + Len(t)) = t

\* 10 * 1024 * 1024, the "10MB limit" of handleFileChange
MaxFileSize == 10 * 1024 * 1024

FileSizes == {1024, MaxFileSize, MaxFileSize + 1}

\* the two messages handleFileChange can show
TypeError == "Please upload a PDF or an Image file."
SizeError == "File size exceeds 10MB."
NoError == "null"

\* the verdict of handleFileChange on a file: the error it sets, or NoError
TypeRejected(file) ==
  ~Includes(file.type, <<"p","d","f">>) /\ ~Includes(file.type, <<"i","m","a","g","e">>)

\* a size check that also turns away a file of exactly the limit
SizeRejectedAtLimit(file) == file.size >= MaxFileSize

SizeRejected(file) == file.size > MaxFileSize

Validate(file) ==
  IF TypeRejected(file) THEN TypeError
  ELSE IF SizeRejected(file) THEN SizeError
  ELSE NoError

(***************************************************************************)
(* State.                                                                  *)
(***************************************************************************)
VARIABLES
  appState,       \* App: useState<AppState>
  data,           \* App: useState<ParsedStatement | null>
  activeTab,      \* App: useState<'dashboard' | 'chat'>
  chatSession,    \* services/gemini: let chatSession (0 is null, else an index of sessions)
  sessions,       \* every Chat object ai.chats.create has returned, in creation order
  uploadError,    \* FileUpload: useState<string | null> (error)
  files,          \* the files handed to handleFileChange so far, with what became of each
  extractions,    \* extractFinancialData calls awaiting their response
  messages,       \* ChatInterface: useState<ChatMessage[]>
  input,          \* ChatInterface: useState('') (input)
  isTyping,       \* ChatInterface: useState(false)
  isListening,    \* ChatInterface: useState(false) (isListening)
  sends,          \* sendMessageToAssistant calls awaiting their response
  nSends,         \* number of handleSend calls accepted so far
  activeAudioId,  \* ChatInterface: useState<string | null>
  isLoadingAudio, \* ChatInterface: useState<string | null>
  audioContext,   \* ChatInterface: audioContextRef.current ("none", "open")
  sourceNodeRef,  \* ChatInterface: sourceNodeRef.current (0 is null, else an index of sources)
  sources,        \* every AudioBufferSourceNode handleSpeak has started
  speakReqs,      \* speakText calls awaiting their response
  nSpeaks,        \* number of speakText calls issued so far
  now,            \* Date.now()
  shown,          \* length of the transcript last shown for the loaded statement (history, read by no handler)
  transactions,   \* Dashboard: data.transactions of the statement it renders
  searchTerm,     \* Dashboard: useState('') (searchTerm)
  categoryData,   \* Dashboard: useMemo (categoryData), <<>> while it is not mounted
  filteredTransactions, \* Dashboard: filteredTransactions of the last render
  lastOp          \* the handler that ran last (history, read by no handler)

appVars == <<appState, data, activeTab>>
geminiVars == <<chatSession, sessions>>
uploadVars == <<uploadError, files>>
chatVars == <<messages, input, isTyping, isListening, shown>>
dashVars == <<transactions, searchTerm, categoryData, filteredTransactions>>
audioVars == <<activeAudioId, isLoadingAudio, audioContext, sourceNodeRef, sources>>
vars == <<appState, data, activeTab, chatSession, sessions, uploadError, files,
          extractions, messages, input, isTyping, isListening, sends, nSends,
          activeAudioId,
          isLoadingAudio, audioContext, sourceNodeRef, sources, speakReqs, nSpeaks,
          now, shown, transactions, searchTerm, categoryData,
          filteredTransactions, lastOp>>

\* enum AppState
AppStates == {"IDLE", "ANALYZING", "DASHBOARD", "ERROR"}

\* data === null
NoData == [id |-> 0, summary |-> FALSE]

\* a value of data in a boolean context ('&& data')
Truthy(d) == d.id # 0

\* the null of activeAudioId / isLoadingAudio (message ids are numbers)
NoMsg == 0

\* the first value Date.now() returns in a run
ClockStart == 10

Op(name, from, arg) == [op |-> name, from |-> from, arg |-> arg, res |-> "none"]

(***************************************************************************)
(* ChatInterface is rendered only under                                    *)
(*   appState === DASHBOARD && data   and   activeTab !== 'dashboard'.     *)
(* When the condition becomes false React unmounts it (its state is gone,  *)
(* the cleanup effect runs, state setters of its pending continuations do  *)
(* nothing); when it becomes true again a fresh instance is mounted.       *)
(***************************************************************************)
ChatVisible(st, d, tab) == st = "DASHBOARD" /\ Truthy(d) /\ tab = "chat"

\* the initial value of messages
Greeting ==
  [id |-> 1, role |-> "model", text |-> <<"N", "a", "m", "a", "s", "t", "e", "!">>]

\* the cleanup effect: sourceNodeRef.current.stop(), audioContextRef.current.close();
\* closing the context silences every source created in it
CleanupSources(srcs) ==
  [k \in DOMAIN srcs |->
     IF srcs[k].orphan THEN srcs[k]
     ELSE [srcs[k] EXCEPT !.status = "ended", !.orphan = TRUE]]

\* a continuation of an unmounted instance keeps the refs of that instance:
\* ctx is what audioContextRef.current is for it ("none" or "closed")
OrphanSpeak(r, ctx) ==
  IF r.orphan THEN r
  ELSE [r EXCEPT !.orphan = TRUE, !.ctx = IF ctx = "none" THEN "none" ELSE "closed"]

ChatLifecycle(before, after) ==
  IF after /\ ~before THEN
    /\ messages' = <<Greeting>>
    /\ input' = <<>>
    /\ isTyping' = FALSE
    /\ isListening' = FALSE
    /\ activeAudioId' = NoMsg
    /\ isLoadingAudio' = NoMsg
    /\ audioContext' = "none"
    /\ sourceNodeRef' = 0
    /\ UNCHANGED <<sources, sends, speakReqs, shown>>
  ELSE IF before /\ ~after THEN
    /\ messages' = <<>>
    /\ input' = <<>>
    /\ isTyping' = FALSE
    /\ isListening' = FALSE
    /\ activeAudioId' = NoMsg
    /\ isLoadingAudio' = NoMsg
    /\ audioContext' = "none"
    /\ sourceNodeRef' = 0
    /\ sources' = CleanupSources(sources)
    /\ sends' = {[r EXCEPT !.orphan = TRUE] : r \in sends}
    /\ speakReqs' = {OrphanSpeak(r, audioContext) : r \in speakReqs}
    /\ shown' = IF appState' = "DASHBOARD" /\ data' = data THEN Len(messages) ELSE 0
  ELSE
    /\ UNCHANGED <<messages, input, isTyping, isListening, activeAudioId, isLoadingAudio,
                   audioContext, sourceNodeRef, sources, sends, speakReqs>>
    /\ shown' = IF appState' = "DASHBOARD" /\ data' = data THEN shown ELSE 0

(***************************************************************************)
(* Dashboard (rendered while appState is DASHBOARD, data is set and the    *)
(* Dashboard tab is active).  A transaction is a record with the fields    *)
(* description, amount, type and category of types.ts; the date is read    *)
(* only by the daily-volume chart.                                         *)
(***************************************************************************)
DashVisible(st, d, tab) == st = "DASHBOARD" /\ Truthy(d) /\ tab = "dashboard"

UpperCase ==
  <<"A", "B", "C", "D", "E", "F", "G", "H", "I", "J", "K", "L", "M",
    "N", "O", "P", "Q", "R", "S", "T", "U", "V", "W", "X", "Y", "Z">>
LowerCase ==
  <<"a", "b", "c", "d", "e", "f", "g", "h", "i", "j", "k", "l", "m",
    "n", "o", "p", "q", "r", "s", "t", "u", "v", "w", "x", "y", "z">>

\* String.prototype.toLowerCase on the letters A-Z; other characters are kept
ToLowerCase(s) ==
  [i \in 1..Len(s) |->
     IF \E k \in DOMAIN UpperCase : UpperCase[k] = s[i]
     THEN LowerCase[CHOOSE k \in DOMAIN UpperCase : UpperCase[k] = s[i]]
     ELSE s[i]]

\* a filter that lowers the case of the fields but not of the search term
FilteredTransactionsRawTerm(txs, term) ==
  SelectSeq(txs, LAMBDA t : \/ Includes(ToLowerCase(t.description), term)
                            \/ Includes(ToLowerCase(t.category), term))

\* filteredTransactions: data.transactions.filter(...)
FilteredTransactions(txs, term) ==
  SelectSeq(txs, LAMBDA t :
    \/ Includes(ToLowerCase(t.description), ToLowerCase(term))
    \/ Includes(ToLowerCase(t.category), ToLowerCase(term)))

\* the values a property of 'categories' can hold: a number n, or the string
\* that '+' makes of a non-number, a number and the amounts added since
\* (appended lists those amounts); "function" is a method inherited from
\* Object.prototype
NumberValue(n) == [kind |-> "number", n |-> n, appended |-> <<>>]
InheritedFunction == [kind |-> "function", n |-> 0, appended |-> <<>>]

\* the names every object literal inherits a truthy property for (also
\* toString, valueOf, hasOwnProperty, ...)
InheritedKeys == {<<"c", "o", "n", "s", "t", "r", "u", "c", "t", "o", "r">>}

\* data.transactions.filter(t => t.type === 'EXPENSE')
Expenses(txs) == SelectSeq(txs, LAMBDA t : t.type = "EXPENSE")

\* 'categories[name] || 0' on the object literal {}: an own property if
\* there is one, else what the prototype chain has under that name; a falsy
\* value gives 0.  cats is the own properties in insertion order.
CategoryOrZero(cats, name) ==
  IF \E i \in DOMAIN cats : cats[i].name = name
  THEN LET v == cats[CHOOSE i \in DOMAIN cats : cats[i].name = name].value
       IN IF v.kind = "number" /\ v.n = 0 THEN NumberValue(0) ELSE v
  ELSE IF name \in InheritedKeys THEN InheritedFunction
  ELSE NumberValue(0)

\* 'v + t.amount': addition of numbers, string concatenation otherwise
PlusAmount(v, amount) ==
  IF v.kind = "number" THEN NumberValue(v.n + amount)
  ELSE [kind |-> "string", n |-> 0, appended |-> Append(v.appended, amount)]

\* 'categories[name] = v'
SetCategory(cats, name, v) ==
  IF \E i \in DOMAIN cats : cats[i].name = name
  THEN [cats EXCEPT ![CHOOSE i \in DOMAIN cats : cats[i].name = name].value = v]
  ELSE Append(cats, [name |-> name, value |-> v])

\* expenses.forEach(t => { categories[t.category] = (categories[t.category] || 0) + t.amount })
RECURSIVE Accumulate(_, _)
Accumulate(cats, expenses) ==
  IF expenses = <<>> THEN cats
  ELSE Accumulate(SetCategory(cats, Head(expenses).category,
                              PlusAmount(CategoryOrZero(cats, Head(expenses).category),
                                         Head(expenses).amount)),
                  Tail(expenses))

\* Array.prototype.sort is stable: with the comparator 'b.value - a.value' on
\* numbers an entry goes behind the entries whose value is not smaller
InsertByValue(sorted, e) ==
  LET k == Cardinality({i \in DOMAIN sorted : sorted[i].value.n >= e.value.n})
  IN SubSeq(sorted, 1, k) \o <<e>> \o SubSeq(sorted, k + 1, Len(sorted))

RECURSIVE SortByValue(_, _)
SortByValue(sorted, entries) ==
  IF entries = <<>> THEN sorted
  ELSE SortByValue(InsertByValue(sorted, Head(entries)), Tail(entries))

\* .sort((a, b) => b.value - a.value): the comparator is NaN on a string, the
\* order is then implementation-defined and any arrangement can come out
SortOutcomes(entries) ==
  IF \A i \in DOMAIN entries : entries[i].value.kind = "number"
  THEN {SortByValue(<<>>, entries)}
  ELSE {[i \in DOMAIN entries |-> entries[p[i]]] : p \in Permutations(DOMAIN entries)}

\* Array.prototype.slice(0, n)
Slice(s, n) == SubSeq(s, 1, IF Len(s) < n THEN Len(s) ELSE n)

\* '.slice(0, 6); // Top 6 categories'
TopCount == 6

\* categoryData: every value the useMemo can produce for data.transactions
CategoryData(txs) ==
  {Slice(s, TopCount) : s \in SortOutcomes(Accumulate(<<>>, Expenses(txs)))}

\* mounting Dashboard computes its chart data and the list for the initial
\* search term ''; the state of an unmounted Dashboard is gone
DashboardLifecycle(before, after) ==
  /\ UNCHANGED transactions
  /\ IF after /\ ~before THEN
       /\ searchTerm' = <<>>
       /\ categoryData' \in CategoryData(transactions)
       /\ filteredTransactions' = FilteredTransactions(transactions, <<>>)
     ELSE IF before /\ ~after THEN
       /\ searchTerm' = <<>>
       /\ categoryData' = <<>>
       /\ filteredTransactions' = <<>>
     ELSE UNCHANGED <<searchTerm, categoryData, filteredTransactions>>

\* the search box: onChange={(e) => setSearchTerm(e.target.value)}, and the
\* render that follows
SetSearchTerm(term) ==
  /\ DashVisible(appState, data, activeTab)
  /\ term # searchTerm
  /\ searchTerm' = term
  /\ filteredTransactions' = FilteredTransactions(transactions, term)
  /\ lastOp' = Op("setSearchTerm", appState, 0)
  /\ UNCHANGED <<transactions, categoryData>>
  /\ UNCHANGED <<appVars, geminiVars, uploadVars, extractions, chatVars, sends,
                 nSends, audioVars, speakReqs, nSpeaks, now>>

(***************************************************************************)
(* FileUpload (rendered only while appState is IDLE).                      *)
(***************************************************************************)
FileRecord(file, verdict) ==
  [type |-> file.type, size |-> file.size, verdict |-> verdict,
   read |-> IF verdict = NoError THEN "pending" ELSE "none",
   calls |-> 0, callType |-> <<>>]

\* handleFileChange: the onChange of the file input
HandleFileChange(file) ==
  /\ appState = "IDLE"
  /\ Len(files) < MaxFiles
  /\ uploadError' = Validate(file)
  /\ files' = Append(files, FileRecord(file, Validate(file)))
  /\ lastOp' = Op("handleFileChange", appState, Len(files) + 1)
  /\ UNCHANGED dashVars
  /\ UNCHANGED <<appVars, geminiVars, extractions, chatVars, sends, nSends,
                 audioVars, speakReqs, nSpeaks, now>>

\* the state handleFileProcess leaves before its await: setAppState(ANALYZING)
\* and one extractFinancialData call issued for the file
StartExtraction(i, mimeType) == [id |-> i, mime |-> mimeType, stale |-> FALSE]

\* reader.onload: onFileSelect(base64, file.type), which is handleFileProcess
\* up to its await
ReaderLoad(i) ==
  /\ i \in DOMAIN files
  /\ files[i].read = "pending"
  /\ files' = [files EXCEPT ![i].read = "loaded", ![i].calls = @ + 1,
                            ![i].callType = files[i].type]
  /\ appState' = "ANALYZING"
  /\ extractions' = extractions \cup {StartExtraction(i, files[i].type)}
  /\ uploadError' = NoError
  /\ UNCHANGED <<data, activeTab, geminiVars, nSends, nSpeaks, now>>
  /\ ChatLifecycle(ChatVisible(appState, data, activeTab),
                   ChatVisible(appState', data', activeTab'))
  /\ lastOp' = Op("handleFileProcess", appState, i)
  /\ DashboardLifecycle(DashVisible(appState, data, activeTab),
                        DashVisible(appState', data', activeTab'))

\* the FileReader fails to read the file: no onerror handler is installed
ReaderError(i) ==
  /\ i \in DOMAIN files
  /\ files[i].read = "pending"
  /\ files' = [files EXCEPT ![i].read = "failed"]
  /\ lastOp' = Op("readerError", appState, i)
  /\ UNCHANGED dashVars
  /\ UNCHANGED <<appVars, geminiVars, uploadError, extractions, chatVars, sends,
                 nSends, audioVars, speakReqs, nSpeaks, now>>

(***************************************************************************)
(* services/gemini: extractFinancialData and initializeChat.               *)
(***************************************************************************)
\* what the extraction request can come back with: the request rejects, the
\* response has no text, the text is not JSON, the text is the JSON null, a
\* JSON object without a summary, a JSON object with a summary
Responses == {"reject", "empty", "badjson", "null", "nosummary", "ok"}

\* an extractFinancialData that throws only when the request is rejected and
\* returns a default dataset for a body it cannot use
ExtractThrowsOnReject(resp) == resp = "reject"

\* extractFinancialData rethrows whatever it catches
ExtractThrows(resp) == resp \in {"reject", "empty", "badjson"}

\* JSON.parse(text) as ParsedStatement: a new value for every response
ParseResult(id, resp) ==
  IF resp = "null" THEN NoData ELSE [id |-> id, summary |-> (resp = "ok")]

\* an initializeChat that reads the currency with optional chaining
InitializeChatTolerant(result) == FALSE

\* initializeChat reads data.summary.currency before it assigns chatSession
InitializeChatThrows(result) == ~result.summary

\* a session that carries the turns of the session it replaces
NewSessionKeepingHistory(result, prev) == [dataset |-> result.id, history |-> prev]

\* ai.chats.create: a new Chat bound to the dataset, with an empty history
\* (prev, the history of the session it replaces, is not used)
NewSession(result, prev) == [dataset |-> result.id, history |-> <<>>]

\* a catch that logs the error and leaves appState as it is
CatchKeepsState(st) == st

\* the catch of handleFileProcess: setAppState(AppState.ERROR)
CatchState(st) == "ERROR"

\* the continuation of handleFileProcess after its await
ExtractionComplete(r, resp) ==
  /\ r \in extractions
  /\ extractions' = extractions \ {r}
  /\ IF ExtractThrows(resp) THEN
       /\ appState' = CatchState(appState)
       /\ UNCHANGED <<data, geminiVars>>
     ELSE IF InitializeChatThrows(ParseResult(r.id, resp)) THEN
       /\ data' = ParseResult(r.id, resp)
       /\ appState' = CatchState(appState)
       /\ UNCHANGED geminiVars
     ELSE
       /\ data' = ParseResult(r.id, resp)
       /\ sessions' = Append(sessions,
            NewSession(ParseResult(r.id, resp),
                       IF chatSession = 0 THEN <<>> ELSE sessions[chatSession].history))
       /\ chatSession' = Len(sessions) + 1
       /\ appState' = "DASHBOARD"
  /\ UNCHANGED <<activeTab, uploadVars, nSends, nSpeaks, now>>
  /\ ChatLifecycle(ChatVisible(appState, data, activeTab),
                   ChatVisible(appState', data', activeTab'))
  /\ lastOp' = [Op("extractionComplete", appState, r.id) EXCEPT !.res = resp]
  /\ DashboardLifecycle(DashVisible(appState, data, activeTab),
                        DashVisible(appState', data', activeTab'))

(***************************************************************************)
(* App: resetApp and the tab buttons.                                      *)
(***************************************************************************)
\* resetApp: the onClick of 'New Upload' (shown whenever appState !== IDLE)
\* and of 'Try Again' (shown in ERROR)
ResetApp ==
  /\ appState # "IDLE"
  /\ appState' = "IDLE"
  /\ data' = NoData
  /\ activeTab' = "dashboard"
  /\ uploadError' = NoError
  /\ extractions' = {[r EXCEPT !.stale = TRUE] : r \in extractions}
  /\ UNCHANGED <<geminiVars, files, nSends, nSpeaks, now>>
  /\ ChatLifecycle(ChatVisible(appState, data, activeTab),
                   ChatVisible(appState', data', activeTab'))
  /\ lastOp' = Op("resetApp", appState, 0)
  /\ DashboardLifecycle(DashVisible(appState, data, activeTab),
                        DashVisible(appState', data', activeTab'))

\* setActiveTab: the two tab buttons, shown while appState is DASHBOARD
SetActiveTab(tab) ==
  /\ appState = "DASHBOARD"
  /\ tab # activeTab
  /\ activeTab' = tab
  /\ UNCHANGED <<appState, data, geminiVars, uploadVars, extractions, nSends,
                 nSpeaks, now>>
  /\ ChatLifecycle(ChatVisible(appState, data, activeTab),
                   ChatVisible(appState', data', activeTab'))
  /\ lastOp' = Op("setActiveTab", appState, 0)
  /\ DashboardLifecycle(DashVisible(appState, data, activeTab),
                        DashVisible(appState', data', activeTab'))

(***************************************************************************)
(* ChatInterface: the transcript and handleSend.                           *)
(***************************************************************************)
RECURSIVE TrimStart(_)
TrimStart(s) ==
  IF s # <<>> /\ Head(s) = " " THEN TrimStart(Tail(s)) ELSE s

RECURSIVE TrimEnd(_)
TrimEnd(s) ==
  IF s # <<>> /\ s[Len(s)] = " " THEN TrimEnd(SubSeq(s, 1, Len(s) - 1)) ELSE s

\* String.prototype.trim
Trim(s) == TrimEnd(TrimStart(s))

\* what the user can have in the text box
Inputs == {<<" ">>, <<"h", "i">>}

\* the queries of the suggestion chips (shortened)
SUGGESTIONS == {<<"R", "o", "a", "s", "t">>}

\* the texts sendMessageToAssistant can resolve to: the reply, the
\* replacement for a reply without text, the fallback of its catch
ReplyText == <<"*", "o", "k", "*">>
NoTextReply == <<"I", " ", "c", "o", "u", "l", "d", "n", "'", "t">>
FallbackReply == <<"S", "o", "r", "r", "y">>
\* the text handleSend shows when sendMessageToAssistant throws
TroubleReply == <<"I", "'", "m", " ", "h", "a", "v", "i", "n", "g">>

SendOutcomes == {"reply", "notext", "fallback"}

\* sendMessageToAssistant: 'if (!chatSession) throw'
SendThrows(session) == session = 0

\* a sendMessageToAssistant whose catch lets the error reach handleSend
SendResultRethrow(outcome) ==
  CASE outcome = "reply" -> ReplyText
    [] outcome = "notext" -> NoTextReply
    [] OTHER -> TroubleReply

\* what sendMessageToAssistant returns for an outcome of chatSession.sendMessage
SendResult(outcome) ==
  CASE outcome = "reply" -> ReplyText
    [] outcome = "notext" -> NoTextReply
    [] OTHER -> FallbackReply

\* textOverride || input
TextToSend(textOverride) == IF textOverride # <<>> THEN textOverride ELSE input

UserMsg(text) == [id |-> now, role |-> "user", text |-> text]
ModelMsg(text) == [id |-> now + 1, role |-> "model", text |-> text]

\* the call a send is awaiting: the Chat object it was made on
SendCall(session, n) == [session |-> session, n |-> n, orphan |-> FALSE]

\* a guard that lets a send through while another one is awaited
CanSendWhileTyping(text) == Trim(text) # <<>>

\* 'if (!textToSend.trim() || isTyping) return'
CanSend(text) == Trim(text) # <<>> /\ ~isTyping

\* handleSend up to its await.  textOverride is <<>> for the send button and
\* the Enter key, and a query for a suggestion chip.
HandleSend(textOverride) ==
  /\ ChatVisible(appState, data, activeTab)
  /\ nSends < MaxSends
  /\ CanSend(TextToSend(textOverride))
  /\ textOverride # <<>> => Len(messages) < 4
  /\ input' = <<>>
  /\ nSends' = nSends + 1
  /\ IF SendThrows(chatSession) THEN
       /\ messages' = messages \o <<UserMsg(TextToSend(textOverride)),
                                     ModelMsg(TroubleReply)>>
       /\ isTyping' = FALSE
       /\ UNCHANGED <<sends, sessions>>
     ELSE
       /\ messages' = Append(messages, UserMsg(TextToSend(textOverride)))
       /\ isTyping' = TRUE
       /\ sends' = sends \cup {SendCall(chatSession, nSends + 1)}
       /\ sessions' = [sessions EXCEPT ![chatSession].history =
                         Append(@, [session |-> chatSession, n |-> nSends + 1])]
  /\ shown' = Len(messages')
  /\ lastOp' = Op("handleSend", appState, 0)
  /\ UNCHANGED dashVars
  /\ UNCHANGED <<appVars, chatSession, uploadVars, extractions, isListening,
                 audioVars, speakReqs, nSpeaks, now>>

\* the text box: setInput(e.target.value)
SetInput(text) ==
  /\ ChatVisible(appState, data, activeTab)
  /\ input # text
  /\ input' = text
  /\ lastOp' = Op("setInput", appState, 0)
  /\ UNCHANGED dashVars
  /\ UNCHANGED <<appVars, geminiVars, uploadVars, extractions, messages, isTyping,
                 isListening, shown, sends, nSends, audioVars, speakReqs, nSpeaks, now>>

\* handleSend after its await: the model message, then setIsTyping(false).
\* The setters of an unmounted instance do nothing.
SendReturns(r, outcome) ==
  /\ r \in sends
  /\ sends' = sends \ {r}
  /\ IF r.orphan THEN UNCHANGED <<messages, isTyping, shown>>
     ELSE /\ messages' = Append(messages, ModelMsg(SendResult(outcome)))
          /\ isTyping' = FALSE
          /\ shown' = Len(messages')
  /\ lastOp' = [Op("sendReturns", appState, 0) EXCEPT !.res = outcome]
  /\ UNCHANGED dashVars
  /\ UNCHANGED <<appVars, geminiVars, uploadVars, extractions, input, isListening,
                 nSends, audioVars, speakReqs, nSpeaks, now>>

\* time passes: Date.now() returns a later value
Tick ==
  /\ now < ClockStart + MaxClock
  /\ now' = now + 1
  /\ UNCHANGED <<appVars, geminiVars, uploadVars, extractions, chatVars, sends,
                 nSends, audioVars, speakReqs, nSpeaks, dashVars, lastOp>>

(***************************************************************************)
(* ChatInterface: voice input (startListening and the callbacks of the     *)
(* SpeechRecognition it starts).                                           *)
(***************************************************************************)
\* the longest text the voice input is let to build in the text box
MaxInputLen == 5

\* what the recogniser can hear: event.results[0][0].transcript
VoiceTexts == {<<"h", "i">>}

\* 'prev ? `${prev} ${transcript}` : transcript'
AppendTranscript(prev, heard) ==
  IF prev # <<>> THEN prev \o <<" ">> \o heard ELSE heard

\* startListening: the microphone button.  While listening it stops the
\* recogniser; else it starts one, whose onstart sets isListening (the start
\* and its onstart are one step here).
StartListening ==
  /\ ChatVisible(appState, data, activeTab)
  /\ isListening' = ~isListening
  /\ lastOp' = Op("startListening", appState, 0)
  /\ UNCHANGED dashVars
  /\ UNCHANGED <<appVars, geminiVars, uploadVars, extractions, messages, input,
                 isTyping, shown, sends, nSends, audioVars, speakReqs, nSpeaks, now>>

\* recognition.onresult: the transcript goes into the text box
RecognitionResult(heard) ==
  /\ ChatVisible(appState, data, activeTab)
  /\ isListening
  /\ Len(AppendTranscript(input, heard)) <= MaxInputLen
  /\ input' = AppendTranscript(input, heard)
  /\ lastOp' = Op("onresult", appState, 0)
  /\ UNCHANGED dashVars
  /\ UNCHANGED <<appVars, geminiVars, uploadVars, extractions, messages, isTyping,
                 isListening, shown, sends, nSends, audioVars, speakReqs, nSpeaks,
                 now>>

\* recognition.onend and recognition.onerror: setIsListening(false)
RecognitionEnd ==
  /\ ChatVisible(appState, data, activeTab)
  /\ isListening
  /\ isListening' = FALSE
  /\ lastOp' = Op("onend", appState, 0)
  /\ UNCHANGED dashVars
  /\ UNCHANGED <<appVars, geminiVars, uploadVars, extractions, messages, input,
                 isTyping, shown, sends, nSends, audioVars, speakReqs, nSpeaks, now>>

(***************************************************************************)
(* ChatInterface: voice output (stopAudio, handleSpeak).                   *)
(***************************************************************************)
\* what the speech request can come back with: the request rejects, the
\* response has no inlineData (speakText throws for both), data that atob or
\* Int16Array refuses (handleSpeak throws), playable audio
SpeakOutcomes == {"reject", "noaudio", "baddata", "audio"}

\* a speakText that resolves without audio data instead of throwing
SpeakThrowsOnlyOnReject(outcome) == outcome = "reject"

\* speakText rethrows whatever it catches
SpeakThrows(outcome) == outcome \in {"reject", "noaudio"}

\* the speak button of a message: 'disabled={isLoadingAudio !== null &&
\* isLoadingAudio !== msg.id}', rendered for model messages only
SpeakEnabled(msg) ==
  /\ msg.role = "model"
  /\ ~(isLoadingAudio # NoMsg /\ isLoadingAudio # msg.id)

\* source.stop() on the node held in sourceNodeRef
StopSource(srcs, ref) ==
  IF ref # 0 /\ srcs[ref].status = "playing"
  THEN [srcs EXCEPT ![ref].status = "stopped"]
  ELSE srcs

\* handleSpeak stops the current audio before it loads another one
\* 'if (activeAudioId) stopAudio()'
MustStopFirst(active) == active # NoMsg

\* the character U+0060 (grave accent), which a TLA+ string cannot contain
Backtick == "U+0060"

\* the characters of the class in the pattern of text.replace(/[*#_`]/g, '')
MarkdownChars == {"*", "#", "_", Backtick}

\* a replace without the g flag: only the first match is removed
CleanTextFirstOnly(text) ==
  IF \E i \in 1..Len(text) : text[i] \in MarkdownChars
  THEN LET i == CHOOSE j \in 1..Len(text) :
                  /\ text[j] \in MarkdownChars
                  /\ \A h \in 1..(j - 1) : text[h] \notin MarkdownChars
       IN SubSeq(text, 1, i - 1) \o SubSeq(text, i + 1, Len(text))
  ELSE text

\* cleanText: String.prototype.replace with a global pattern scans the text
\* from the left and replaces every match by the empty string
RECURSIVE CleanText(_)
CleanText(text) ==
  IF text = <<>> THEN <<>>
  ELSE IF Head(text) \in MarkdownChars THEN CleanText(Tail(text))
  ELSE <<Head(text)>> \o CleanText(Tail(text))

\* the speech request a handleSpeak is awaiting: speakText(cleanText)
SpeakCall(msg, n) ==
  [msg |-> msg.id, text |-> CleanText(msg.text), n |-> n, orphan |-> FALSE,
   ctx |-> "none"]

\* handleSpeak up to its await
HandleSpeak(k) ==
  /\ ChatVisible(appState, data, activeTab)
  /\ k \in DOMAIN messages
  /\ SpeakEnabled(messages[k])
  /\ IF activeAudioId = messages[k].id THEN
       \* stopAudio(); return
       /\ sources' = StopSource(sources, sourceNodeRef)
       /\ sourceNodeRef' = 0
       /\ activeAudioId' = NoMsg
       /\ isLoadingAudio' = NoMsg
       /\ UNCHANGED <<speakReqs, nSpeaks>>
     ELSE
       /\ nSpeaks < MaxSpeaks
       /\ IF MustStopFirst(activeAudioId) THEN
            /\ sources' = StopSource(sources, sourceNodeRef)
            /\ sourceNodeRef' = 0
            /\ activeAudioId' = NoMsg
          ELSE UNCHANGED <<sources, sourceNodeRef, activeAudioId>>
       /\ isLoadingAudio' = messages[k].id
       /\ speakReqs' = speakReqs \cup {SpeakCall(messages[k], nSpeaks + 1)}
       /\ nSpeaks' = nSpeaks + 1
  /\ lastOp' = Op("handleSpeak", appState, messages[k].id)
  /\ UNCHANGED dashVars
  /\ UNCHANGED <<appVars, geminiVars, uploadVars, extractions, chatVars, sends,
                 nSends, audioContext, now>>

\* the node handleSpeak creates and starts: on a closed context nothing plays
NewSource(r) ==
  [msg |-> r.msg, orphan |-> r.orphan,
   status |-> IF r.orphan /\ r.ctx = "closed" THEN "ended" ELSE "playing"]

\* handleSpeak after its await
SpeakReturns(r, outcome) ==
  /\ r \in speakReqs
  /\ speakReqs' = speakReqs \ {r}
  /\ IF SpeakThrows(outcome) \/ outcome = "baddata" THEN
       \* catch: setIsLoadingAudio(null); setActiveAudioId(null)
       /\ IF r.orphan THEN UNCHANGED <<isLoadingAudio, activeAudioId, audioContext>>
          ELSE /\ isLoadingAudio' = NoMsg
               /\ activeAudioId' = NoMsg
               /\ audioContext' = IF SpeakThrows(outcome) THEN audioContext ELSE "open"
       /\ UNCHANGED <<sources, sourceNodeRef>>
     ELSE
       /\ sources' = Append(sources, NewSource(r))
       /\ IF r.orphan THEN
            UNCHANGED <<isLoadingAudio, activeAudioId, audioContext, sourceNodeRef>>
          ELSE /\ audioContext' = "open"
               /\ sourceNodeRef' = Len(sources) + 1
               /\ isLoadingAudio' = NoMsg
               /\ activeAudioId' = r.msg
  /\ lastOp' = [Op("speakReturns", appState, r.msg) EXCEPT !.res = outcome]
  /\ UNCHANGED dashVars
  /\ UNCHANGED <<appVars, geminiVars, uploadVars, extractions, chatVars, sends,
                 nSends, nSpeaks, now>>

\* source.onended: the node has played to its end, or stop() was called on it
SourceEnded(k) ==
  /\ k \in DOMAIN sources
  /\ sources[k].status \in {"playing", "stopped"}
  /\ sources' = [sources EXCEPT ![k].status = "ended"]
  /\ activeAudioId' = IF sources[k].orphan THEN activeAudioId ELSE NoMsg
  /\ lastOp' = Op("onended", appState, sources[k].msg)
  /\ UNCHANGED dashVars
  /\ UNCHANGED <<appVars, geminiVars, uploadVars, extractions, chatVars, sends,
                 nSends, isLoadingAudio, audioContext, sourceNodeRef, speakReqs,
                 nSpeaks, now>>

(***************************************************************************)
(* The application: every handler of App, FileUpload and ChatInterface.    *)
(***************************************************************************)
Init ==
  /\ appState = "IDLE"
  /\ data = NoData
  /\ activeTab = "dashboard"
  /\ chatSession = 0
  /\ sessions = <<>>
  /\ uploadError = NoError
  /\ files = <<>>
  /\ extractions = {}
  /\ messages = <<>>
  /\ input = <<>>
  /\ isTyping = FALSE
  /\ isListening = FALSE
  /\ sends = {}
  /\ nSends = 0
  /\ activeAudioId = NoMsg
  /\ isLoadingAudio = NoMsg
  /\ audioContext = "none"
  /\ sourceNodeRef = 0
  /\ sources = <<>>
  /\ speakReqs = {}
  /\ nSpeaks = 0
  /\ now = ClockStart
  /\ shown = 0
  /\ transactions = <<>>
  /\ searchTerm = <<>>
  /\ categoryData = <<>>
  /\ filteredTransactions = <<>>
  /\ lastOp = Op("init", "IDLE", 0)

\* the files of a run that is about the controller: one that handleFileChange
\* accepts and one that it rejects
SampleFiles == {[type |-> MimePdf, size |-> 1024], [type |-> MimeText, size |-> 1024]}

\* the files of a run that is about handleFileChange
AllFiles == [type : FileTypes, size : FileSizes]

\* App, FileUpload and the chat side of ChatInterface
Next ==
  \/ \E f \in SampleFiles : HandleFileChange(f)
  \/ \E i \in 1..MaxFiles : ReaderLoad(i)
  \/ \E i \in 1..MaxFiles : ReaderError(i)
  \/ \E r \in extractions, resp \in Responses : ExtractionComplete(r, resp)
  \/ ResetApp
  \/ \E tab \in {"dashboard", "chat"} : SetActiveTab(tab)
  \/ \E text \in Inputs \cup {<<>>} : SetInput(text)
  \/ \E q \in SUGGESTIONS \cup {<<>>} : HandleSend(q)
  \/ \E r \in sends, o \in SendOutcomes : SendReturns(r, o)

Spec == Init /\ [][Next]_vars

\* the application under the assumption that an extraction request that is
\* awaited is eventually answered: the promise of generateContent settles
ExtractionSettles ==
  \E r \in extractions, resp \in Responses : ExtractionComplete(r, resp)

\* the handlers of App and FileUpload: the state controller by itself
NextController ==
  \/ \E f \in SampleFiles : HandleFileChange(f)
  \/ \E i \in 1..MaxFiles : ReaderLoad(i)
  \/ \E i \in 1..MaxFiles : ReaderError(i)
  \/ ExtractionSettles
  \/ ResetApp
  \/ \E tab \in {"dashboard", "chat"} : SetActiveTab(tab)

SpecLive == Init /\ [][NextController]_vars /\ WF_vars(ExtractionSettles)

\* FileUpload with every kind of file, and the controller behind it
NextUpload ==
  \/ \E f \in AllFiles : HandleFileChange(f)
  \/ \E i \in 1..MaxFiles : ReaderLoad(i)
  \/ \E i \in 1..MaxFiles : ReaderError(i)
  \/ \E r \in extractions, resp \in Responses : ExtractionComplete(r, resp)
  \/ ResetApp

SpecUpload == Init /\ [][NextUpload]_vars

\* the Assistant tab of a loaded statement, as Spec reaches it by one upload,
\* its extraction and a click on the tab
AssistantTabOpen ==
  /\ appState = "DASHBOARD"
  /\ data = [id |-> 1, summary |-> TRUE]
  /\ activeTab = "chat"
  /\ chatSession = 1
  /\ sessions = <<[dataset |-> 1, history |-> <<>>]>>
  /\ uploadError = NoError
  /\ files = <<[FileRecord([type |-> MimePdf, size |-> 1024], NoError)
                 EXCEPT !.read = "loaded", !.calls = 1, !.callType = MimePdf]>>
  /\ extractions = {}
  /\ messages = <<Greeting>>
  /\ input = <<>>
  /\ isTyping = FALSE
  /\ isListening = FALSE
  /\ sends = {}
  /\ nSends = 0
  /\ activeAudioId = NoMsg
  /\ isLoadingAudio = NoMsg
  /\ audioContext = "none"
  /\ sourceNodeRef = 0
  /\ sources = <<>>
  /\ speakReqs = {}
  /\ nSpeaks = 0
  /\ now = ClockStart
  /\ shown = 0
  /\ searchTerm = <<>>
  /\ categoryData = <<>>
  /\ filteredTransactions = <<>>
  /\ lastOp = Op("setActiveTab", "DASHBOARD", 0)

\* ... of a statement without transactions
InitAudio == AssistantTabOpen /\ transactions = <<>>

\* the voice output of ChatInterface, with the sends that add messages to
\* speak and the tab buttons that unmount and remount it
NextAudio ==
  \/ \E k \in 1..(1 + 2 * MaxSends) : HandleSpeak(k)
  \/ \E r \in speakReqs, o \in SpeakOutcomes : SpeakReturns(r, o)
  \/ \E k \in 1..MaxSpeaks : SourceEnded(k)
  \/ \E tab \in {"dashboard", "chat"} : SetActiveTab(tab)
  \/ \E q \in SUGGESTIONS : HandleSend(q)
  \/ \E r \in sends, o \in SendOutcomes : SendReturns(r, o)
  \/ Tick

SpecAudio == InitAudio /\ [][NextAudio]_vars

\* the same with the Assistant tab kept open: speak-button clicks, speech
\* responses and end-of-playback events on one mounted ChatInterface
NextSpeak ==
  \/ \E k \in 1..(1 + 2 * MaxSends) : HandleSpeak(k)
  \/ \E r \in speakReqs, o \in SpeakOutcomes : SpeakReturns(r, o)
  \/ \E k \in 1..MaxSpeaks : SourceEnded(k)
  \/ \E q \in SUGGESTIONS : HandleSend(q)
  \/ \E r \in sends, o \in SendOutcomes : SendReturns(r, o)
  \/ Tick

SpecSpeak == InitAudio /\ [][NextSpeak]_vars

\* the longest reply text enumerated for the speak button
MaxLen == 3

\* the example of a reply with markdown emphasis and inline code
HelloWorldMarkdown ==
  <<"*", "*", "H", "e", "l", "l", "o", "*", "*", " ", Backtick, "w", "o", "r", "l", "d", Backtick>>

\* reply texts: every text of up to MaxLen characters over the four
\* markdown characters, a letter and a blank, and the example
SpokenTexts ==
  UNION {[1..n -> MarkdownChars \cup {"a", " "}] : n \in 0..MaxLen}
    \cup {HelloWorldMarkdown}

\* the Assistant tab after one question has been answered with some text
InitSpoken ==
  /\ now = ClockStart
  /\ appState = "DASHBOARD"
  /\ data = [id |-> 1, summary |-> TRUE]
  /\ activeTab = "chat"
  /\ chatSession = 1
  /\ sessions = <<[dataset |-> 1, history |-> <<[session |-> 1, n |-> 1]>>]>>
  /\ uploadError = NoError
  /\ files = <<[FileRecord([type |-> MimePdf, size |-> 1024], NoError)
                 EXCEPT !.read = "loaded", !.calls = 1, !.callType = MimePdf]>>
  /\ extractions = {}
  /\ \E q \in SUGGESTIONS, t \in SpokenTexts :
       messages = <<Greeting, UserMsg(q), ModelMsg(t)>>
  /\ input = <<>>
  /\ isTyping = FALSE
  /\ isListening = FALSE
  /\ sends = {}
  /\ nSends = 1
  /\ activeAudioId = NoMsg
  /\ isLoadingAudio = NoMsg
  /\ audioContext = "none"
  /\ sourceNodeRef = 0
  /\ sources = <<>>
  /\ speakReqs = {}
  /\ nSpeaks = 0
  /\ shown = Len(messages)
  /\ transactions = <<>>
  /\ searchTerm = <<>>
  /\ categoryData = <<>>
  /\ filteredTransactions = <<>>
  /\ lastOp = [Op("sendReturns", "DASHBOARD", 0) EXCEPT !.res = "reply"]

\* the speak buttons of that transcript
NextSpoken ==
  \/ \E k \in 1..3 : HandleSpeak(k)
  \/ \E r \in speakReqs, o \in SpeakOutcomes : SpeakReturns(r, o)
  \/ \E k \in 1..MaxSpeaks : SourceEnded(k)

SpecSpoken == InitSpoken /\ [][NextSpoken]_vars

\* the longest list for which every transaction list is enumerated
MaxTx == 3

Food == <<"F", "o", "o", "d">>
Transport == <<"T", "r", "a", "n", "s", "p", "o", "r", "t">>
Constructor == <<"c", "o", "n", "s", "t", "r", "u", "c", "t", "o", "r">>

\* the category names of a statement with more categories than the chart shows
WideCategories ==
  <<Food, Transport, <<"R", "e", "n", "t">>, <<"B", "i", "l", "l", "s">>,
    <<"F", "u", "e", "l">>, <<"G", "y", "m">>, <<"T", "a", "x">>>>

\* statements for the category chart: every list of up to MaxTx transactions
\* over two types, three amounts and three categories, and the lists with
\* one expense of 30 or 50 in each of the seven WideCategories
CategoryLists ==
  UNION {[1..n -> [description : {<<"x">>}, amount : {30, 50, 100},
                   type : {"INCOME", "EXPENSE"},
                   category : {Food, Transport, Constructor}]] : n \in 0..MaxTx}
    \cup {[i \in DOMAIN WideCategories |->
             [description |-> <<"x">>, amount |-> f[i], type |-> "EXPENSE",
              category |-> WideCategories[i]]] : f \in [DOMAIN WideCategories -> {30, 50}]}

\* the terms typed into the search box
SearchTerms ==
  {<<>>, <<"c", "o", "f">>, <<"C", "O", "F">>, <<"o">>, <<"F", "o", "o", "d">>,
   <<"z", "z">>}

\* statements for the transaction search: every list of up to MaxTx
\* transactions over two descriptions and two categories
SearchLists ==
  UNION {[1..n -> [description : {<<"C", "o", "f", "f", "e", "e">>,
                                  <<"A", "M", "Z", "N">>},
                   amount : {30}, type : {"EXPENSE"},
                   category : {Food, <<"C", "O", "F">>}]] : n \in 0..MaxTx}

\* the Dashboard of a loaded statement: the tab buttons mount and unmount
\* it, the search box filters its transaction list
NextDashboard ==
  \/ \E tab \in {"dashboard", "chat"} : SetActiveTab(tab)
  \/ \E term \in SearchTerms : SetSearchTerm(term)

InitCategories == AssistantTabOpen /\ transactions \in CategoryLists
SpecCategories == InitCategories /\ [][NextDashboard]_vars

InitSearch == AssistantTabOpen /\ transactions \in SearchLists
SpecSearch == InitSearch /\ [][NextDashboard]_vars

\* the number of chat and speech requests made in one run of SpecFrame
MaxRequests == 1

\* every handler of the interface besides the clock: uploads, extraction
\* responses, resets, the tabs, the search box, the chat, voice input and
\* voice output
NextFrame ==
  \/ \E f \in SampleFiles : HandleFileChange(f)
  \/ \E i \in 1..MaxFiles : ReaderLoad(i)
  \/ \E i \in 1..MaxFiles : ReaderError(i)
  \/ ExtractionSettles
  \/ ResetApp
  \/ \E tab \in {"dashboard", "chat"} : SetActiveTab(tab)
  \/ \E term \in SearchTerms : SetSearchTerm(term)
  \/ nSends + nSpeaks < MaxRequests /\ \E q \in SUGGESTIONS \cup {<<>>} : HandleSend(q)
  \/ \E r \in sends, o \in SendOutcomes : SendReturns(r, o)
  \/ StartListening
  \/ \E heard \in VoiceTexts : RecognitionResult(heard)
  \/ RecognitionEnd
  \/ \E k \in DOMAIN messages :
       /\ nSends + nSpeaks < MaxRequests \/ activeAudioId = messages[k].id
       /\ HandleSpeak(k)
  \/ \E r \in speakReqs, o \in SpeakOutcomes : SpeakReturns(r, o)
  \/ \E k \in 1..MaxSpeaks : SourceEnded(k)

SpecFrame == InitAudio /\ [][NextFrame]_vars

(***************************************************************************)
(* The claims.                                                             *)
(***************************************************************************)

\* C1: appState changes only along Idle->Analyzing, Analyzing->Dashboard,
\* Analyzing->Error, Error->Idle and Dashboard->Idle.
ListedTransitions ==
  {<<"IDLE", "ANALYZING">>, <<"ANALYZING", "DASHBOARD">>, <<"ANALYZING", "ERROR">>,
   <<"ERROR", "IDLE">>, <<"DASHBOARD", "IDLE">>}

C1_OnlyListedTransitions ==
  [][appState' # appState => <<appState, appState'>> \in ListedTransitions]_vars

\* C2: the completion of an extraction request that a reset has overtaken
\* changes none of appState, data and chatSession.
C2_LateCompletionIgnored ==
  [][(\E r \in extractions : r.stale /\ r \notin extractions')
       => UNCHANGED <<appState, data, chatSession>>]_vars

\* C3: after resetApp from Dashboard appState is IDLE, data is null and no
\* session is active: sendMessageToAssistant throws 'Chat session not
\* initialized'.
C3_ResetDiscardsSession ==
  (lastOp.op = "resetApp" /\ lastOp.from = "DASHBOARD")
    => (appState = "IDLE" /\ data = NoData /\ SendThrows(chatSession))

\* C4: whenever appState is ERROR, data is null.
C4_ErrorKeepsNoData == appState = "ERROR" => data = NoData

\* C5: at most one extractFinancialData request is awaiting its response.
C5_OneExtractionInFlight == Cardinality(extractions) <= 1

\* C6: at most one sendMessageToAssistant call is outstanding against the
\* module-level chat session.
C6_OneSendOutstanding == Cardinality({r \in sends : r.session = chatSession}) <= 1

\* C7: at most one audio source started by handleSpeak is playing, and a
\* source that is playing is the one held in sourceNodeRef.
Playing == {k \in DOMAIN sources : sources[k].status = "playing"}

C7_OneSourcePlaying ==
  /\ Cardinality(Playing) <= 1
  /\ \A k \in Playing : sourceNodeRef = k

\* C8: whenever appState is DASHBOARD the module-level chat session is the
\* one initializeChat created last, from the dataset held in data; and the
\* history of every session holds only turns that were sent to that session.
C8_SessionBoundToDataset ==
  /\ appState = "DASHBOARD" =>
       /\ Truthy(data)
       /\ chatSession # 0
       /\ chatSession = Len(sessions)
       /\ sessions[chatSession].dataset = data.id
  /\ \A k \in DOMAIN sessions :
       \A j \in DOMAIN sessions[k].history : sessions[k].history[j].session = k

\* a second dataset is on the dashboard, and the session of the first one
\* had been sent a turn
C8_Witness ==
  /\ appState = "DASHBOARD"
  /\ chatSession = 2
  /\ data.id = 2
  /\ sessions[1].dataset = 1
  /\ sessions[1].history # <<>>

\* C9: a file whose MIME type is not PDF, image/png, image/jpeg or image/webp
\* gets the file-type error, is never passed to onFileSelect, starts no
\* extraction, and leaves appState IDLE and data null.
C9_DisallowedTypeRejected ==
  /\ \A i \in DOMAIN files :
       files[i].type \notin AcceptedTypes =>
         /\ files[i].verdict = TypeError
         /\ files[i].read = "none"
         /\ files[i].calls = 0
         /\ \A r \in extractions : r.id # i
  /\ (lastOp.op = "handleFileChange" /\ files[lastOp.arg].type \notin AcceptedTypes)
       => (uploadError = TypeError /\ appState = "IDLE" /\ data = NoData)

\* C10: a file larger than 10*1024*1024 bytes is never passed to
\* onFileSelect, and with an accepted type it gets the size error; a file of
\* an accepted type of at most 10*1024*1024 bytes is accepted, clears the
\* error, and is passed to onFileSelect once, when its read has loaded, with
\* its own MIME type (and not at all if the read fails).
C10_SizeCeiling ==
  /\ \A i \in DOMAIN files :
       /\ files[i].size > 10 * 1024 * 1024 =>
            /\ files[i].read = "none"
            /\ files[i].calls = 0
            /\ \A r \in extractions : r.id # i
       /\ (files[i].type \in AcceptedTypes /\ files[i].size > 10 * 1024 * 1024) =>
            files[i].verdict = SizeError
       /\ (files[i].type \in AcceptedTypes /\ files[i].size <= 10 * 1024 * 1024) =>
            /\ files[i].verdict = NoError
            /\ files[i].read # "none"
            /\ files[i].calls = (IF files[i].read = "loaded" THEN 1 ELSE 0)
            /\ files[i].read = "loaded" => files[i].callType = files[i].type
            /\ \A r \in extractions : r.id = i => r.mime = files[i].type
  /\ lastOp.op = "handleFileChange" => uploadError = files[lastOp.arg].verdict

\* a PNG of exactly 10*1024*1024 bytes has been read and passed on, and an
\* oversized PDF has been turned away
C10_Witness ==
  /\ \E i \in DOMAIN files :
       /\ files[i].type = MimePng
       /\ files[i].size = 10 * 1024 * 1024
       /\ files[i].calls = 1
  /\ \E i \in DOMAIN files :
       /\ files[i].type = MimePdf
       /\ files[i].size = 10 * 1024 * 1024 + 1
       /\ files[i].verdict = SizeError

(***************************************************************************)
(* Claims about the assistant chat, the extraction and the voice output.   *)
(***************************************************************************)
\* C11: when the chat request behind a send fails, sendMessageToAssistant
\* returns its fallback sentence instead of throwing (the transcript gets
\* the fallback, not the text handleSend shows for a thrown error), the
\* failed call leaves chatSession and the sessions as they were, and every
\* send issued is made on the session chatSession holds.
C11_FallbackKeepsSession ==
  [][/\ (lastOp'.op = "sendReturns" /\ lastOp'.res = "fallback" /\ sends' # sends)
          => /\ chatSession' = chatSession
             /\ sessions' = sessions
             /\ messages' # messages
                  => /\ Len(messages') = Len(messages) + 1
                     /\ SubSeq(messages', 1, Len(messages)) = messages
                     /\ messages'[Len(messages')].role = "model"
                     /\ messages'[Len(messages')].text = FallbackReply
     /\ lastOp'.op = "handleSend"
          => \A c \in sends' \ sends : c.session = chatSession /\ chatSession' = chatSession
    ]_vars

\* a send awaited on the session an earlier send failed on: the fallback is
\* in the transcript and the second call is in that session's history
C11_Witness ==
  /\ ChatVisible(appState, data, activeTab)
  /\ \E i \in 1..Len(messages) : messages[i].text = FallbackReply
  /\ \E c \in sends : /\ c.n = 2 /\ c.session = chatSession /\ ~c.orphan
                      /\ Len(sessions[c.session].history) = 2

\* the transcript of the mounted ChatInterface: the greeting, then user and
\* model messages in turn, a user message last exactly while its request is
\* awaited (isTyping), with one request of this instance outstanding then
C12_Shape ==
  ChatVisible(appState, data, activeTab)
    => /\ Len(messages) >= 1
       /\ messages[1] = Greeting
       /\ \A i \in 2..Len(messages) :
            messages[i].role = IF i % 2 = 0 THEN "user" ELSE "model"
       /\ isTyping <=> Len(messages) % 2 = 0
       /\ Cardinality({c \in sends : ~c.orphan}) = IF isTyping THEN 1 ELSE 0

\* an accepted handleSend puts the text sent at the end of the transcript as
\* one user message (followed at once by the error message if the call threw
\* synchronously); the completion of its request puts one model message
\* directly after it and clears isTyping
C12_Step ==
  /\ (lastOp'.op = "handleSend" /\ nSends' # nSends)
       => /\ ~isTyping
          /\ Len(messages') >= Len(messages) + 1
          /\ SubSeq(messages', 1, Len(messages)) = messages
          /\ messages'[Len(messages) + 1].role = "user"
          /\ messages'[Len(messages) + 1].text \in SUGGESTIONS \cup {input}
          /\ \/ isTyping' /\ Len(messages') = Len(messages) + 1
             \/ /\ ~isTyping' /\ Len(messages') = Len(messages) + 2
                /\ messages'[Len(messages')].role = "model"
  /\ (lastOp'.op = "sendReturns" /\ sends' # sends /\ messages' # messages)
       => /\ isTyping /\ ~isTyping'
          /\ messages[Len(messages)].role = "user"
          /\ Len(messages') = Len(messages) + 1
          /\ SubSeq(messages', 1, Len(messages)) = messages
          /\ messages'[Len(messages')].role = "model"

\* C12: within one mounted ChatInterface every accepted handleSend appends
\* exactly one user message and, once its request completes, exactly one
\* model message directly after it, and isTyping returns to false; after
\* N sends the transcript is the greeting followed by N user/model pairs
\* in call order.
C12_SendAppendsPair == [](C12_Shape) /\ [][C12_Step]_vars

\* two sends issued one after another on one mounted ChatInterface, both
\* completed: the greeting and two user/model pairs
C12_Witness ==
  /\ ChatVisible(appState, data, activeTab)
  /\ nSends = 2
  /\ Len(messages) = 5
  /\ ~isTyping
  /\ lastOp.op = "sendReturns"

\* C13: a handleFileProcess issues one extraction request and never retries;
\* when the request fails or its body is empty or not JSON,
\* extractFinancialData throws and the controller moves from Analyzing to
\* Error without storing a dataset or creating a chat session.
C13_FailedExtractionToError ==
  [][(/\ lastOp'.op = "extractionComplete"
      /\ lastOp'.res \in {"reject", "empty", "badjson"}
      /\ extractions' # extractions)
       => /\ appState = "ANALYZING"
          /\ appState' = "ERROR"
          /\ data' = data
          /\ chatSession' = chatSession
          /\ sessions' = sessions
          /\ Cardinality(extractions') = Cardinality(extractions) - 1
    ]_vars

\* C14: when the speech request fails or its response carries no audio,
\* speakText throws and handleSpeak recovers in its catch: no audio source is
\* started by that call, activeAudioId and isLoadingAudio of the instance
\* that made the call are null afterwards, and the transcript and appState
\* are as before.
C14_SpeakFailureRecovered ==
  [][(/\ lastOp'.op = "speakReturns"
      /\ lastOp'.res \in {"reject", "noaudio"}
      /\ speakReqs' # speakReqs)
       => /\ sources' = sources
          /\ sourceNodeRef' = sourceNodeRef
          /\ messages' = messages
          /\ appState' = appState
          /\ (\E r \in speakReqs \ speakReqs' : ~r.orphan)
               => activeAudioId' = NoMsg /\ isLoadingAudio' = NoMsg
    ]_vars

\* a response without audio has just been handled on the open Assistant tab
\* while a message was loading: nothing is loading or playing
C14_Witness ==
  /\ ChatVisible(appState, data, activeTab)
  /\ lastOp.op = "speakReturns"
  /\ lastOp.res = "noaudio"
  /\ speakReqs = {}
  /\ nSpeaks = 1
  /\ sources = <<>>
  /\ activeAudioId = NoMsg
  /\ isLoadingAudio = NoMsg

\* C15: the text transmitted in a speech request is the text of the message
\* spoken with every '*', '#', '_' and backtick removed and every other
\* character kept in its original order.
C15_MarkdownStripped ==
  \A r \in speakReqs :
    \E k \in 1..Len(messages) :
      /\ messages[k].id = r.msg
      /\ LET kept == {i \in 1..Len(messages[k].text) :
                        messages[k].text[i] \notin {"*", "#", "_", Backtick}}
             Rank(i) == Cardinality({j \in kept : j <= i})
         IN /\ Len(r.text) = Cardinality(kept)
            /\ \A i \in kept : r.text[Rank(i)] = messages[k].text[i]

\* the example: the speech request for "**Hello** `world`" carries "Hello world"
C15_Witness ==
  \E r \in speakReqs, k \in 1..Len(messages) :
    /\ messages[k].id = r.msg
    /\ messages[k].text = HelloWorldMarkdown
    /\ r.text = <<"H", "e", "l", "l", "o", " ", "w", "o", "r", "l", "d">>

(***************************************************************************)
(* Claims about the Dashboard.                                             *)
(***************************************************************************)
\* the sum of the amounts of the EXPENSE transactions of a category
RECURSIVE C16_ExpenseTotal(_, _)
C16_ExpenseTotal(txs, cat) ==
  IF txs = <<>> THEN 0
  ELSE (IF Head(txs).type = "EXPENSE" /\ Head(txs).category = cat
        THEN Head(txs).amount ELSE 0) + C16_ExpenseTotal(Tail(txs), cat)

C16_ExpenseCategories ==
  {transactions[i].category :
     i \in {j \in DOMAIN transactions : transactions[j].type = "EXPENSE"}}

\* C16: the top-categories result holds one entry per distinct category of
\* the EXPENSE transactions, its value the sum of the amounts of the EXPENSE
\* transactions of that category, ordered by non-increasing value and
\* limited to the 6 largest entries.
C16_TopCategories ==
  DashVisible(appState, data, activeTab)
    => /\ \A i \in DOMAIN categoryData :
            /\ categoryData[i].name \in C16_ExpenseCategories
            /\ categoryData[i].value.kind = "number"
            /\ categoryData[i].value.n =
                 C16_ExpenseTotal(transactions, categoryData[i].name)
       /\ \A i, j \in DOMAIN categoryData :
            /\ i # j => categoryData[i].name # categoryData[j].name
            /\ i < j => categoryData[i].value.n >= categoryData[j].value.n
       /\ Len(categoryData) = IF Cardinality(C16_ExpenseCategories) < 6
                              THEN Cardinality(C16_ExpenseCategories) ELSE 6
       /\ \A c \in C16_ExpenseCategories :
            (\A i \in DOMAIN categoryData : categoryData[i].name # c)
              => \A i \in DOMAIN categoryData :
                   categoryData[i].value.n >= C16_ExpenseTotal(transactions, c)

\* two characters that are the same when case is ignored
C17_SameLetter(a, b) ==
  \/ a = b
  \/ \E k \in DOMAIN UpperCase : {a, b} = {UpperCase[k], LowerCase[k]}

\* s contains t as a substring when case is ignored
C17_Contains(s, t) ==
  \E k \in 0..(Len(s) - Len(t)) :
    \A j \in 1..Len(t) : C17_SameLetter(s[k + j], t[j])

\* C17: the filtered list is exactly the transactions, in their original
\* order, whose description or category contains the search term as a
\* substring when case is ignored; the empty term returns every transaction.
C17_FilteredBySearchTerm ==
  DashVisible(appState, data, activeTab)
    => LET kept == {i \in DOMAIN transactions :
                      \/ C17_Contains(transactions[i].description, searchTerm)
                      \/ C17_Contains(transactions[i].category, searchTerm)}
           Rank(i) == Cardinality({j \in kept : j <= i})
       IN /\ Len(filteredTransactions) = Cardinality(kept)
          /\ \A i \in kept : filteredTransactions[Rank(i)] = transactions[i]
          /\ searchTerm = <<>> => filteredTransactions = transactions

\* an upper-case term has been typed: of three transactions the list keeps
\* the first (matched by its description in another case) and the third
\* (matched by its category), and drops the second
C17_Witness ==
  /\ DashVisible(appState, data, activeTab)
  /\ lastOp.op = "setSearchTerm"
  /\ searchTerm = <<"C", "O", "F">>
  /\ Len(transactions) = 3
  /\ transactions[1].description = <<"C", "o", "f", "f", "e", "e">>
  /\ transactions[1].category = Food
  /\ transactions[2].description = <<"A", "M", "Z", "N">>
  /\ transactions[2].category = Food
  /\ transactions[3].description = <<"A", "M", "Z", "N">>
  /\ transactions[3].category = <<"C", "O", "F">>
  /\ filteredTransactions = <<transactions[1], transactions[3]>>

(***************************************************************************)
(* Claims about the transcript, the message ids and progress.              *)
(***************************************************************************)
\* C18: the transcript is append-only while appState remains DASHBOARD,
\* switching between the Dashboard and Assistant tabs included: every
\* earlier transcript is a prefix of the current one, so the transcript
\* shown is never shorter than the one last shown for the loaded statement.
C18_TranscriptAppendOnly ==
  ChatVisible(appState, data, activeTab) => shown <= Len(messages)

\* C19: all messages in the chat transcript have pairwise distinct ids, for
\* every timing of sends and replies on a millisecond clock.
C19_DistinctMessageIds ==
  \A i, j \in DOMAIN messages : i # j => messages[i].id # messages[j].id

\* the click on 'New Upload' or 'Try Again' can be made
C20_CanReset == ENABLED ResetApp

\* a file can be selected for upload
C20_CanUpload == ENABLED (\E f \in SampleFiles : HandleFileChange(f))

\* C20: if every extraction request eventually completes, every Analyzing
\* state is followed by Dashboard or Error unless a reset intervenes; from
\* Error as from Dashboard a reset is possible and leads to Idle, where a
\* new upload is possible, so no state is a dead end: in Analyzing a
\* request is awaited, in Dashboard and Error the reset can be made, in Idle
\* a file can be selected.
C20_NoDeadEnd ==
  /\ (appState = "ANALYZING")
       ~> \/ appState \in {"DASHBOARD", "ERROR"}
          \/ appState = "IDLE" /\ lastOp.op = "resetApp"
  /\ [](appState = "ANALYZING" => extractions # {})
  /\ [](appState \in {"DASHBOARD", "ERROR"} => C20_CanReset)
  /\ [](appState = "IDLE" /\ Len(files) < MaxFiles => C20_CanUpload)
  /\ [][lastOp'.op = "resetApp" /\ appState' # appState => appState' = "IDLE"]_vars

\* a failed extraction has been reset and the next upload has reached the
\* Dashboard with its own statement
C20_Witness ==
  /\ appState = "DASHBOARD"
  /\ lastOp.op = "extractionComplete"
  /\ lastOp.from = "ANALYZING"
  /\ Len(files) = 2
  /\ files[1].read = "loaded"
  /\ files[2].read = "loaded"
  /\ data.id = 2
  /\ chatSession = 1
  /\ extractions = {}

(***************************************************************************)
(* Claims about the stored dataset.                                        *)
(***************************************************************************)
\* the handlers C21 lists: the tabs, the chat, voice input, voice output
\* and the search box
C21_FrameOps ==
  {"setActiveTab", "setInput", "handleSend", "sendReturns", "startListening",
   "onresult", "onend", "handleSpeak", "speakReturns", "onended", "setSearchTerm"}

\* C21: the stored dataset changes only when an extraction succeeds (the
\* response of extractFinancialData is stored) or on reset (it is cleared);
\* switching tabs, sending chat messages, receiving replies or fallbacks,
\* starting or stopping speech, voice input and editing the search term
\* leave both data and appState unchanged.
C21_DataFrame ==
  [][/\ data' # data
          => \/ /\ lastOp'.op = "extractionComplete"
                /\ lastOp'.res \in {"null", "nosummary", "ok"}
                /\ extractions' # extractions
             \/ lastOp'.op = "resetApp" /\ data' = NoData
     /\ lastOp'.op \in C21_FrameOps => data' = data /\ appState' = appState
    ]_vars

\* the search term has been edited on the Dashboard of a loaded statement
\* after a chat request and a use of the microphone on the Assistant tab
C21_Witness ==
  /\ lastOp.op = "setSearchTerm"
  /\ searchTerm # <<>>
  /\ nSends + nSpeaks = 1
  /\ appState = "DASHBOARD"
  /\ data = [id |-> 1, summary |-> TRUE]

\* C22: in every reachable state appState = DASHBOARD implies that data is
\* not null, and appState = IDLE implies that data is null, for every
\* interleaving of uploads, resets and extraction completions.
C22_DataMatchesState ==
  /\ appState = "DASHBOARD" => Truthy(data) /\ data # NoData
  /\ appState = "IDLE" => data = NoData

\* an extraction answered after a reset has put the application in
\* DASHBOARD straight from IDLE, with its statement stored
C22_Witness ==
  /\ appState = "DASHBOARD"
  /\ lastOp.op = "extractionComplete"
  /\ lastOp.from = "IDLE"
  /\ Truthy(data)
  /\ \E i \in DOMAIN files : files[i].read = "pending"

====
